---- MODULE Spec2Model ----
(***************************************************************************)
(* Model of DerivativesCaseStudy.py, a Streamlit script.  Streamlit runs   *)
(* the whole script from top to bottom after every widget interaction, so  *)
(* one step of the model is: one widget takes a new value, and the script  *)
(* reruns the branch of the selected section with the widget values.       *)
(* Script variables are fresh on every run and the widgets of a section    *)
(* that is not shown lose their values, so a state holds the values of the *)
(* section that ran last and None for everything else.                     *)
(*                                                                         *)
(* Real numbers (Python floats) are modelled as exact rationals <<p, q>>   *)
(* in lowest terms with q > 0; floating-point rounding is not modelled.    *)
(* Exchange rates are entered in hundredths (the widgets' step is 0.01).   *)
(***************************************************************************)
EXTENDS Integers, Sequences, FiniteSets

VARIABLES
    section,                  \* sidebar radio
    notional_value_millions,  \* number_input "Notional Value (USD millions)"
    notional_value,           \* notional in USD
    initial_rate,             \* number_input "Initial Exchange Rate"
    strike_price,             \* number_input "Strike Price"
    contract_duration,        \* slider "Contract Duration (months)"
    current_rate,             \* slider "Current Exchange Rate"
    months_elapsed,           \* slider "Months Elapsed Since Contract Start"
    months_remaining,
    loss_usd,
    percentage_loss,
    loss_metric,              \* st.metric "Loss (USD)": value and delta
    formula_metric,           \* st.metric "Formula": value and delta
    multiple_metric,          \* st.metric "Loss Multiple": value and delta
    high_risk_warning,        \* "Warning: High Risk Exposure" is shown
    final_rate,               \* number_input "Final Exchange Rate"
    scenario_type,            \* radio "Select scenario type:"
    shock_month,              \* slider "Month of Shock"
    months,                   \* list(range(1, 13))
    exchange_rates,           \* the scenario's rate path
    monthly_losses_usd,       \* monthly losses in USD millions
    cumulative_losses_usd,    \* running total of the monthly losses in USD
    cumulative_losses_usd_millions,
    df_cumulative,            \* column 'Cumulative Loss (USD millions)' of df
    max_monthly_loss,
    max_loss_month,
    h1,                       \* slider "Foreign Currency Revenue" / 100
    h2,                       \* slider "Foreign Currency Costs" / 100
    r,                        \* slider "Profit Margin" / 100
    ebit,                     \* number_input "EBIT (USD millions)"
    ebit_value,
    delta,
    optimal_hedge,
    actual_hedge,             \* number_input "Actual Hedged Amount"
    actual_hedge_value,
    hedge_ratio,
    hedging_stance,
    stance_color,
    bar_color,                \* colour of bars[1]
    exception,                \* the exception that ended the run, "" if none
    call_function,            \* the loss function called directly, "" if none
    call_args,                \* its arguments
    call_result               \* the value it returned

simVars == <<contract_duration, current_rate, months_elapsed, months_remaining,
             loss_usd, percentage_loss, loss_metric, formula_metric,
             multiple_metric, high_risk_warning>>

scnVars == <<final_rate, scenario_type, shock_month, months, exchange_rates,
             monthly_losses_usd, cumulative_losses_usd,
             cumulative_losses_usd_millions, df_cumulative, max_monthly_loss,
             max_loss_month>>

hedgeVars == <<h1, h2, r, ebit, ebit_value, delta, optimal_hedge, actual_hedge,
               actual_hedge_value, hedge_ratio, hedging_stance, stance_color,
               bar_color>>

callVars == <<call_function, call_args, call_result>>

vars == <<section, notional_value_millions, notional_value, initial_rate,
          strike_price, simVars, scnVars, hedgeVars, exception, callVars>>

----------------------------------------------------------------------------
(* Exact rational arithmetic.                                              *)

RECURSIVE GCD(_, _)
GCD(a, b) == IF b = 0 THEN a ELSE GCD(b, a % b)

Abs(a) == IF a < 0 THEN -a ELSE a

\* p/q in lowest terms with a positive denominator (q # 0).
Rat(p, q) ==
    LET g == GCD(Abs(p), Abs(q))
        s == IF q < 0 THEN -1 ELSE 1
    IN  <<s * (p \div g), s * (q \div g)>>

Int2Rat(k) == <<k, 1>>

Zero == <<0, 1>>

RatNeg(a) == <<-a[1], a[2]>>

RatAdd(a, b) ==
    LET g == GCD(a[2], b[2])
    IN  Rat(a[1] * (b[2] \div g) + b[1] * (a[2] \div g), (a[2] \div g) * b[2])

RatSub(a, b) == RatAdd(a, RatNeg(b))

\* Cross-cancel before multiplying: the product is then in lowest terms and
\* the intermediate products stay small.
RatMul(a, b) ==
    LET g1 == GCD(Abs(a[1]), b[2])
        g2 == GCD(Abs(b[1]), a[2])
    IN  <<(a[1] \div g1) * (b[1] \div g2), (a[2] \div g2) * (b[2] \div g1)>>

\* a / b for b # 0.
RatDiv(a, b) == RatMul(a, Rat(b[2], b[1]))

RatLT(a, b) == a[1] * b[2] < b[1] * a[2]

RatLE(a, b) == a[1] * b[2] <= b[1] * a[2]

RatAbs(a) == <<Abs(a[1]), a[2]>>

\* A widget value given in hundredths.
Cents(c) == Rat(c, 100)

----------------------------------------------------------------------------
(* Values of a variable the last run did not assign.                       *)

NoRat == <<0, 0>>

NoInt == 0 - 1

----------------------------------------------------------------------------
(* Widget ranges and the values the model draws from them.                 *)

Sections == {"Introduction", "Sell Target Forward Simulator",
             "Market Scenario Analysis", "Risk Management Insights",
             "Aracruz Case Study"}

MinNotional == 1
DefaultNotional == 15
NotionalStep == 5
OneMillion == 1000000

MinRate == 100
MaxRate == 300
DefaultInitialRate == 160
DefaultStrike == 165
DefaultCurrentRate == 160

MinDuration == 1
MaxDuration == 12

\* Number of presses of the notional input's "+" button the model explores.
MaxNotionalSteps == 0

NotionalChoices ==
    {MinNotional + NotionalStep * k : k \in 0..MaxNotionalSteps} \cup {DefaultNotional}

DefaultFinalRate == 200
DefaultShockMonth == 6
NumMonths == 12

\* A contract duration between the slider's ends.
MidDuration == 6

\* Simulator section.
SimInitialRateChoices == {DefaultInitialRate, DefaultFinalRate}

SimStrikeChoices == {MinRate, DefaultStrike, DefaultFinalRate}

SimCurrentRateChoices == {DefaultCurrentRate, DefaultStrike, DefaultFinalRate, MaxRate}

DurationChoices == {MinDuration, MidDuration, MaxDuration}

\* Scenario section.  A path's total loss is kept as an exact fraction, so
\* the rates are chosen to keep its denominator within TLC's integers: the
\* strikes lie in the upper part of the widget's range, where at most four
\* months of a path are above the strike.
ScnStrikeChoices == {215, 220}

\* The strike at which the model enters the section: the lowest one explored.
ScnDefaultStrike ==
    CHOOSE x \in ScnStrikeChoices : \A y \in ScnStrikeChoices : x <= y

ScnInitialRateChoices == {120, DefaultInitialRate}

ScnFinalRateChoices == {DefaultFinalRate, 220, 240}

ScenarioTypes == {"Gradual Change", "Sudden Shock", "Typical Pre-2008 Pattern",
                  "2008 Crisis Pattern"}

ShockMonthChoices == 1..NumMonths

\* Risk Management Insights, tab "Optimal Hedging Analysis": percentages and
\* amounts in USD millions.
MaxPercent == 100
DefaultH1 == 95
DefaultH2 == 25
MaxR == 50
DefaultR == 25
DefaultEbit == 500
DefaultActualHedge == 1000

HedgeH1Choices == {0, DefaultH1}

HedgeH2Choices == {DefaultH2, MaxPercent}

HedgeRChoices == {0, DefaultR, MaxR}

EbitChoices == {0, 100, DefaultEbit}

\* Amounts at and next to the thresholds of the stance for an optimal hedge
\* of USD 305 million (the default shares and margin with an EBIT of 100).
ActualHedgeChoices == {0, 244, 366, 367, 610, 611, DefaultActualHedge}

----------------------------------------------------------------------------
(* The two loss functions.  n: notional, i0: initial rate, S: current      *)
(* rate, X: strike, t: months remaining.                                   *)

\* Variants of the loss functions with one plausible slip each.
stf_losses_unguarded(n, i0, S, X, t) ==
    RatDiv(RatMul(RatMul(RatMul(n, Int2Rat(2)), Int2Rat(t)), RatSub(X, S)), S)

stf_losses_divided_by_strike(n, i0, S, X, t) ==
    IF RatLE(S, X)
    THEN Zero
    ELSE RatDiv(RatMul(RatMul(RatMul(n, Int2Rat(2)), Int2Rat(t)), RatSub(X, S)), X)

stf_losses_extra_month(n, i0, S, X, t) ==
    IF RatLE(S, X)
    THEN Zero
    ELSE RatDiv(RatMul(RatMul(RatMul(n, Int2Rat(2)), Int2Rat(t + 1)),
                       RatSub(X, S)), S)

stf_losses_from_initial_rate(n, i0, S, X, t) ==
    IF RatLE(S, X)
    THEN Zero
    ELSE RatDiv(RatMul(RatMul(RatMul(n, Int2Rat(2)), Int2Rat(t)), RatSub(i0, S)), S)

percentage_loss_as_fraction(S, X, t) ==
    IF RatLE(S, X)
    THEN Zero
    ELSE RatDiv(RatMul(RatMul(Int2Rat(2), Int2Rat(t)), RatSub(X, S)), S)

stf_losses_floor_one_month(n, i0, S, X, t) ==
    IF RatLE(S, X)
    THEN Zero
    ELSE RatDiv(RatMul(RatMul(RatMul(n, Int2Rat(2)),
                              Int2Rat(IF t < 1 THEN 1 ELSE t)),
                       RatSub(X, S)), S)

stf_losses_single_exposure(n, i0, S, X, t) ==
    IF RatLE(S, X)
    THEN Zero
    ELSE RatDiv(RatMul(RatMul(n, Int2Rat(t)), RatSub(X, S)), S)

percentage_loss_divided_by_strike(S, X, t) ==
    IF RatLE(S, X)
    THEN Zero
    ELSE RatDiv(RatMul(RatMul(RatMul(Int2Rat(2), Int2Rat(t)), RatSub(X, S)),
                       Int2Rat(100)),
                X)

calculate_stf_losses(n, i0, S, X, t) ==
    IF RatLE(S, X)
    THEN Zero
    ELSE LET loss_brl == RatMul(RatMul(RatMul(n, Int2Rat(2)), Int2Rat(t)),
                                RatSub(X, S))
         IN  RatDiv(loss_brl, S)

calculate_percentage_loss(S, X, t) ==
    IF RatLE(S, X)
    THEN Zero
    ELSE RatDiv(RatMul(RatMul(RatMul(Int2Rat(2), Int2Rat(t)), RatSub(X, S)),
                       Int2Rat(100)),
                S)

----------------------------------------------------------------------------
(* Simulation Results: the three metrics, each as <<value, delta>> with    *)
(* the formatted numbers left out, and the condition of the warning.       *)

LossMultipleMetric_positive(l) ==
    IF RatLT(Zero, l)
    THEN <<"{multiple}x", "{multiple} times the notional value">>
    ELSE <<"0x", "No loss incurred">>

LossMetric(l) ==
    IF l = Zero
    THEN <<"$0", "No Loss">>
    ELSE <<"${loss_usd} million", "-{loss_usd/notional_value*100}% of notional">>

FormulaMetric(S, X) ==
    IF RatLT(X, S)
    THEN <<"l = n x 2t x (X - S)", "{calc_text}">>
    ELSE <<"l = n x 2t x (X - S)", "No Loss (S <= X)">>

LossMultipleMetric(l) ==
    IF RatLT(l, Zero)
    THEN <<"{multiple}x", "{multiple} times the notional value">>
    ELSE <<"0x", "No loss incurred">>

\* if percentage_loss > 50
HighRiskWarning(pl) == RatLT(Int2Rat(50), pl)

----------------------------------------------------------------------------
(* Market Scenario Analysis: the rate path of each scenario type.          *)
(* ir, fr: initial and final rate; sm: month of the shock.                 *)

\* Variants of the path generators with one plausible slip each.
GradualChange_over_twelve(ir, fr) ==
    [i \in 1..NumMonths |->
        RatAdd(ir, RatDiv(RatMul(RatSub(fr, ir), Int2Rat(i - 1)), Int2Rat(12)))]

Crisis2008_short(ir, fr) ==
    [i \in 1..7 |-> RatSub(ir, RatMul(Rat(2, 100), Int2Rat(i - 1)))]
        \o [j \in 1..4 |->
                RatAdd(ir, RatDiv(RatMul(RatSub(fr, ir), Int2Rat(j)), Int2Rat(4)))]

SuddenShock_swapped(ir, fr, sm) ==
    [i \in 1..NumMonths |-> IF i < sm THEN fr ELSE ir]

SuddenShock_inclusive(ir, fr, sm) ==
    [i \in 1..NumMonths |-> IF i <= sm THEN ir ELSE fr]

TypicalPre2008_over_twelve ==
    LET start_rate == Rat(22, 10)
        end_rate == Rat(16, 10)
    IN  [i \in 1..NumMonths |->
            RatSub(start_rate,
                   RatDiv(RatMul(RatSub(start_rate, end_rate), Int2Rat(i - 1)),
                          Int2Rat(12)))]

Crisis2008_drift_from_first_month(ir, fr) ==
    [i \in 1..8 |-> RatSub(ir, RatMul(Rat(2, 100), Int2Rat(i)))]
        \o [j \in 1..4 |->
                RatAdd(ir, RatDiv(RatMul(RatSub(fr, ir), Int2Rat(j)), Int2Rat(4)))]

GradualChange(ir, fr) ==
    [i \in 1..NumMonths |->
        RatAdd(ir, RatDiv(RatMul(RatSub(fr, ir), Int2Rat(i - 1)), Int2Rat(11)))]

SuddenShock(ir, fr, sm) ==
    [i \in 1..NumMonths |-> IF i < sm THEN ir ELSE fr]

TypicalPre2008 ==
    LET start_rate == Rat(22, 10)
        end_rate == Rat(16, 10)
    IN  [i \in 1..NumMonths |->
            RatSub(start_rate,
                   RatDiv(RatMul(RatSub(start_rate, end_rate), Int2Rat(i - 1)),
                          Int2Rat(11)))]

pre_crisis_months == 8

Crisis2008(ir, fr) ==
    LET pre_crisis_rates ==
            [i \in 1..pre_crisis_months |->
                RatSub(ir, RatMul(Rat(2, 100), Int2Rat(i - 1)))]
        crisis_rates ==
            [j \in 1..(NumMonths - pre_crisis_months) |->
                LET i == pre_crisis_months + j
                IN  RatAdd(ir, RatDiv(RatMul(RatSub(fr, ir),
                                             Int2Rat(i - pre_crisis_months)),
                                      Int2Rat(12 - pre_crisis_months)))]
    IN  pre_crisis_rates \o crisis_rates

ScenarioRates(st, ir, fr, sm) ==
    CASE st = "Gradual Change" -> GradualChange(ir, fr)
      [] st = "Sudden Shock" -> SuddenShock(ir, fr, sm)
      [] st = "Typical Pre-2008 Pattern" -> TypicalPre2008
      [] st = "2008 Crisis Pattern" -> Crisis2008(ir, fr)

MonthlyLoss_guard_on_initial_rate(n, i0, rate, X) ==
    IF RatLE(i0, X) THEN Zero ELSE calculate_stf_losses(n, i0, rate, X, 1)

MonthlyLoss_two_months(n, i0, rate, X) == calculate_stf_losses(n, i0, rate, X, 2)

\* The loss of one month of the path: the loss function with one month
\* remaining.
MonthlyLoss(n, i0, rate, X) == calculate_stf_losses(n, i0, rate, X, 1)

\* The loop with an accumulator that is not reset between runs.
RECURSIVE LossLoop_carry_over(_, _, _, _, _)
LossLoop_carry_over(rates, n, i0, X, k) ==
    IF k = 0
    THEN [monthly |-> <<>>,
          cumulative |-> IF cumulative_losses_usd = NoRat
                         THEN Zero ELSE cumulative_losses_usd]
    ELSE LET before == LossLoop_carry_over(rates, n, i0, X, k - 1)
             monthly_loss == calculate_stf_losses(n, i0, rates[k], X, 1)
         IN  [monthly |-> Append(before.monthly,
                                 RatDiv(monthly_loss, Int2Rat(OneMillion))),
              cumulative |-> RatAdd(before.cumulative, monthly_loss)]

\* The loop over the path: the list of monthly losses in USD millions and
\* the running total in USD, after the first k months.
RECURSIVE LossLoop(_, _, _, _, _)
LossLoop(rates, n, i0, X, k) ==
    IF k = 0
    THEN [monthly |-> <<>>, cumulative |-> Zero]
    ELSE LET before == LossLoop(rates, n, i0, X, k - 1)
             monthly_loss == MonthlyLoss(n, i0, rates[k], X)
         IN  [monthly |-> Append(before.monthly,
                                 RatDiv(monthly_loss, Int2Rat(OneMillion))),
              cumulative |-> RatAdd(before.cumulative, monthly_loss)]

CumSum_no_carry(xs) == xs

\* np.cumsum
RECURSIVE CumSum(_)
CumSum(xs) ==
    IF xs = <<>>
    THEN <<>>
    ELSE LET front == CumSum(SubSeq(xs, 1, Len(xs) - 1))
         IN  Append(front, IF front = <<>> THEN xs[Len(xs)]
                           ELSE RatAdd(front[Len(front)], xs[Len(xs)]))

\* max(xs) in place of min(xs)
RECURSIVE SeqMin_as_max(_)
SeqMin_as_max(xs) ==
    IF Len(xs) = 1
    THEN xs[1]
    ELSE LET m == SeqMin_as_max(Tail(xs))
         IN  IF RatLT(xs[1], m) THEN m ELSE xs[1]

\* min(xs) of a non-empty list
RECURSIVE SeqMin(_)
SeqMin(xs) ==
    IF Len(xs) = 1
    THEN xs[1]
    ELSE LET m == SeqMin(Tail(xs))
         IN  IF RatLT(m, xs[1]) THEN m ELSE xs[1]

\* xs.index(x) + 1: the first position holding x
FirstIndex(xs, x) ==
    CHOOSE k \in 1..Len(xs) : xs[k] = x /\ \A j \in 1..(k - 1) : xs[j] # x

----------------------------------------------------------------------------
(* Optimal Hedging Analysis.  f1, f2: foreign shares of revenue and costs, *)
(* m: profit margin (not 0), hr: ratio of the actual to the optimal hedge. *)

\* Variants with one plausible slip each.
optimal_hedge_ratio_clamped(f1, f2, m) ==
    LET d == RatAdd(f1, RatMul(RatSub(f1, f2),
                               RatSub(RatDiv(Int2Rat(1), m), Int2Rat(1))))
    IN  IF RatLT(d, Zero) THEN Zero
        ELSE IF RatLT(Int2Rat(1), d) THEN Int2Rat(1) ELSE d

HedgingStance_strict(hr) ==
    IF RatLT(hr, Rat(8, 10)) THEN "Under-hedged"
    ELSE IF RatLT(hr, Rat(12, 10)) THEN "Appropriately hedged"
    ELSE IF RatLE(hr, Int2Rat(2)) THEN "Moderately over-hedged"
    ELSE "Significantly over-hedged (potential speculation)"

HedgeRatio_nonzero_guard(av, oh) ==
    IF oh # Zero THEN RatDiv(av, oh) ELSE Zero

\* delta = h1 + (h1 - h2) * (1/r - 1)
optimal_hedge_ratio(f1, f2, m) ==
    RatAdd(f1, RatMul(RatSub(f1, f2), RatSub(RatDiv(Int2Rat(1), m), Int2Rat(1))))

\* av: actual hedge, oh: optimal hedge, both in USD.
HedgeRatio(av, oh) ==
    IF RatLT(Zero, oh) THEN RatDiv(av, oh) ELSE Zero

HedgingStance(hr) ==
    IF RatLT(hr, Rat(8, 10)) THEN "Under-hedged"
    ELSE IF RatLE(hr, Rat(12, 10)) THEN "Appropriately hedged"
    ELSE IF RatLE(hr, Int2Rat(2)) THEN "Moderately over-hedged"
    ELSE "Significantly over-hedged (potential speculation)"

StanceColor(hr) ==
    IF RatLT(hr, Rat(8, 10)) THEN "orange"
    ELSE IF RatLE(hr, Rat(12, 10)) THEN "green"
    ELSE IF RatLE(hr, Int2Rat(2)) THEN "yellow"
    ELSE "red"

BarColor(hr) ==
    IF RatLT(hr, Rat(8, 10)) THEN "orange"
    ELSE IF RatLE(hr, Rat(12, 10)) THEN "green"
    ELSE IF RatLE(hr, Int2Rat(2)) THEN "yellow"
    ELSE "red"

----------------------------------------------------------------------------
(* One run of the script with section "Sell Target Forward Simulator".     *)
(* nm: notional in millions; ir, sp, cr: rates in hundredths; cd: contract *)
(* duration; me: months elapsed.                                           *)

NoScenario ==
    /\ final_rate' = NoRat
    /\ scenario_type' = ""
    /\ shock_month' = NoInt
    /\ months' = <<>>
    /\ exchange_rates' = <<>>
    /\ monthly_losses_usd' = <<>>
    /\ cumulative_losses_usd' = NoRat
    /\ cumulative_losses_usd_millions' = NoRat
    /\ df_cumulative' = <<>>
    /\ max_monthly_loss' = NoRat
    /\ max_loss_month' = NoInt

NoHedging ==
    /\ h1' = NoRat
    /\ h2' = NoRat
    /\ r' = NoRat
    /\ ebit' = NoInt
    /\ ebit_value' = NoRat
    /\ delta' = NoRat
    /\ optimal_hedge' = NoRat
    /\ actual_hedge' = NoInt
    /\ actual_hedge_value' = NoRat
    /\ hedge_ratio' = NoRat
    /\ hedging_stance' = ""
    /\ stance_color' = ""
    /\ bar_color' = ""

\* The script run calls the loss functions itself; no direct call is made.
NoCall ==
    /\ call_function' = ""
    /\ call_args' = <<>>
    /\ call_result' = NoRat

NoSimulator ==
    /\ contract_duration' = NoInt
    /\ current_rate' = NoRat
    /\ months_elapsed' = NoInt
    /\ months_remaining' = NoInt
    /\ loss_usd' = NoRat
    /\ percentage_loss' = NoRat
    /\ loss_metric' = <<>>
    /\ formula_metric' = <<>>
    /\ multiple_metric' = <<>>
    /\ high_risk_warning' = FALSE

SimulatorRun(nm, ir, sp, cd, cr, me) ==
    /\ section' = "Sell Target Forward Simulator"
    /\ notional_value_millions' = nm
    /\ notional_value' = RatMul(Int2Rat(nm), Int2Rat(OneMillion))
    /\ initial_rate' = Cents(ir)
    /\ strike_price' = Cents(sp)
    /\ contract_duration' = cd
    /\ current_rate' = Cents(cr)
    /\ months_elapsed' = me
    /\ months_remaining' = contract_duration' - months_elapsed'
    /\ loss_usd' = calculate_stf_losses(notional_value', initial_rate',
                                        current_rate', strike_price',
                                        months_remaining')
    /\ percentage_loss' = calculate_percentage_loss(current_rate', strike_price',
                                                    months_remaining')
    /\ loss_metric' = LossMetric(loss_usd')
    /\ formula_metric' = FormulaMetric(current_rate', strike_price')
    /\ multiple_metric' = LossMultipleMetric(loss_usd')
    /\ high_risk_warning' = HighRiskWarning(percentage_loss')
    /\ NoScenario
    /\ NoHedging
    /\ exception' = ""
    /\ NoCall

(* One run of the script with section "Market Scenario Analysis".          *)
(* fr: final rate in hundredths; st: scenario type; sm: month of the shock *)
(* (the slider exists for "Sudden Shock" only).                            *)
ScenarioRun(nm, sp, ir, fr, st, sm) ==
    /\ section' = "Market Scenario Analysis"
    /\ notional_value_millions' = nm
    /\ notional_value' = RatMul(Int2Rat(nm), Int2Rat(OneMillion))
    /\ strike_price' = Cents(sp)
    /\ initial_rate' = Cents(ir)
    /\ final_rate' = Cents(fr)
    /\ scenario_type' = st
    /\ shock_month' = IF st = "Sudden Shock" THEN sm ELSE NoInt
    /\ months' = [i \in 1..NumMonths |-> i]
    /\ exchange_rates' = ScenarioRates(st, initial_rate', final_rate', sm)
    /\ LET loop == LossLoop(exchange_rates', notional_value', initial_rate',
                            strike_price', Len(exchange_rates'))
       IN  /\ monthly_losses_usd' = loop.monthly
           /\ cumulative_losses_usd' = loop.cumulative
    /\ cumulative_losses_usd_millions' =
           RatDiv(cumulative_losses_usd', Int2Rat(OneMillion))
    /\ df_cumulative' = CumSum(monthly_losses_usd')
    /\ max_monthly_loss' = SeqMin(monthly_losses_usd')
    /\ max_loss_month' = FirstIndex(monthly_losses_usd', max_monthly_loss')
    /\ NoSimulator
    /\ NoHedging
    /\ exception' = ""
    /\ NoCall

\* A run of a section that computes none of the modelled values.
StaticRun(s) ==
    /\ section' = s
    /\ notional_value_millions' = NoInt
    /\ notional_value' = NoRat
    /\ initial_rate' = NoRat
    /\ strike_price' = NoRat
    /\ NoSimulator
    /\ NoScenario
    /\ NoHedging
    /\ exception' = ""
    /\ NoCall

(* One run of the script with section "Risk Management Insights".  p1, p2, *)
(* pr: the three sliders in percent; eb, ah: EBIT and actual hedge in USD  *)
(* millions.  With a profit margin of 0 the division 1/r raises            *)
(* ZeroDivisionError and the run ends there: nothing below it is assigned  *)
(* and the actual-hedge input is not shown.                                *)
HedgingRun(p1, p2, pr, eb, ah) ==
    /\ section' = "Risk Management Insights"
    /\ notional_value_millions' = NoInt
    /\ notional_value' = NoRat
    /\ initial_rate' = NoRat
    /\ strike_price' = NoRat
    /\ NoSimulator
    /\ NoScenario
    /\ NoCall
    /\ h1' = Rat(p1, 100)
    /\ h2' = Rat(p2, 100)
    /\ r' = Rat(pr, 100)
    /\ ebit' = eb
    /\ ebit_value' = RatMul(Int2Rat(eb), Int2Rat(OneMillion))
    /\ IF r' = Zero
       THEN /\ exception' = "ZeroDivisionError"
            /\ delta' = NoRat
            /\ optimal_hedge' = NoRat
            /\ actual_hedge' = NoInt
            /\ actual_hedge_value' = NoRat
            /\ hedge_ratio' = NoRat
            /\ hedging_stance' = ""
            /\ stance_color' = ""
            /\ bar_color' = ""
       ELSE /\ exception' = ""
            /\ delta' = optimal_hedge_ratio(h1', h2', r')
            /\ optimal_hedge' = RatMul(delta', ebit_value')
            /\ actual_hedge' = ah
            /\ actual_hedge_value' = RatMul(Int2Rat(ah), Int2Rat(OneMillion))
            /\ hedge_ratio' = HedgeRatio(actual_hedge_value', optimal_hedge')
            /\ hedging_stance' = HedgingStance(hedge_ratio')
            /\ stance_color' = StanceColor(hedge_ratio')
            /\ bar_color' = BarColor(hedge_ratio')

\* A widget's value in hundredths.
InCents(x) == (x[1] * 100) \div x[2]

----------------------------------------------------------------------------
(* Actions: one per widget.                                                *)

InSimulator == section = "Sell Target Forward Simulator"

InScenario == section = "Market Scenario Analysis"

\* Sidebar radio: show another section.  The simulator starts at its
\* widgets' defaults.  The scenario section is observed from the run in
\* which the strike has been set to ScnDefaultStrike, the other widgets at
\* their defaults.
Navigate(s) ==
    /\ s # section
    /\ CASE s = "Sell Target Forward Simulator" ->
                SimulatorRun(DefaultNotional, DefaultInitialRate, DefaultStrike,
                             MaxDuration, DefaultCurrentRate, 0)
         [] s = "Market Scenario Analysis" ->
                ScenarioRun(DefaultNotional, ScnDefaultStrike, DefaultInitialRate,
                            DefaultFinalRate, "Gradual Change", DefaultShockMonth)
         [] s = "Risk Management Insights" ->
                HedgingRun(DefaultH1, DefaultH2, DefaultR, DefaultEbit,
                           DefaultActualHedge)
         [] OTHER -> StaticRun(s)

SimSetNotional(nm) ==
    /\ InSimulator
    /\ SimulatorRun(nm, InCents(initial_rate), InCents(strike_price),
                    contract_duration, InCents(current_rate), months_elapsed)

SimSetInitialRate(ir) ==
    /\ InSimulator
    /\ SimulatorRun(notional_value_millions, ir, InCents(strike_price),
                    contract_duration, InCents(current_rate), months_elapsed)

SimSetStrike(sp) ==
    /\ InSimulator
    /\ SimulatorRun(notional_value_millions, InCents(initial_rate), sp,
                    contract_duration, InCents(current_rate), months_elapsed)

\* The elapsed-months slider is built with max_value=contract_duration; a
\* slider whose parameters change is a new widget and starts at its default 0.
SimSetContractDuration(cd) ==
    /\ InSimulator
    /\ cd # contract_duration
    /\ SimulatorRun(notional_value_millions, InCents(initial_rate),
                    InCents(strike_price), cd, InCents(current_rate), 0)

SimSetCurrentRate(cr) ==
    /\ InSimulator
    /\ SimulatorRun(notional_value_millions, InCents(initial_rate),
                    InCents(strike_price), contract_duration, cr, months_elapsed)

SimSetMonthsElapsed(me) ==
    /\ InSimulator
    /\ me \in 0..contract_duration
    /\ SimulatorRun(notional_value_millions, InCents(initial_rate),
                    InCents(strike_price), contract_duration,
                    InCents(current_rate), me)

\* The shock slider's value, or its default while the slider is not shown.
ShockMonthNow == IF shock_month = NoInt THEN DefaultShockMonth ELSE shock_month

ScnSetNotional(nm) ==
    /\ InScenario
    /\ ScenarioRun(nm, InCents(strike_price), InCents(initial_rate),
                   InCents(final_rate), scenario_type, ShockMonthNow)

ScnSetStrike(sp) ==
    /\ InScenario
    /\ ScenarioRun(notional_value_millions, sp, InCents(initial_rate),
                   InCents(final_rate), scenario_type, ShockMonthNow)

ScnSetInitialRate(ir) ==
    /\ InScenario
    /\ ScenarioRun(notional_value_millions, InCents(strike_price), ir,
                   InCents(final_rate), scenario_type, ShockMonthNow)

ScnSetFinalRate(fr) ==
    /\ InScenario
    /\ ScenarioRun(notional_value_millions, InCents(strike_price),
                   InCents(initial_rate), fr, scenario_type, ShockMonthNow)

\* The shock slider appears with "Sudden Shock", at its default.
ScnSetScenarioType(st) ==
    /\ InScenario
    /\ st # scenario_type
    /\ ScenarioRun(notional_value_millions, InCents(strike_price),
                   InCents(initial_rate), InCents(final_rate), st,
                   DefaultShockMonth)

ScnSetShockMonth(sm) ==
    /\ InScenario
    /\ scenario_type = "Sudden Shock"
    /\ ScenarioRun(notional_value_millions, InCents(strike_price),
                   InCents(initial_rate), InCents(final_rate), scenario_type, sm)

InHedging == section = "Risk Management Insights"

\* The actual-hedge input's value, or its default while it is not shown.
ActualHedgeNow ==
    IF actual_hedge = NoInt THEN DefaultActualHedge ELSE actual_hedge

HedgeSetH1(p1) ==
    /\ InHedging
    /\ HedgingRun(p1, InCents(h2), InCents(r), ebit, ActualHedgeNow)

HedgeSetH2(p2) ==
    /\ InHedging
    /\ HedgingRun(InCents(h1), p2, InCents(r), ebit, ActualHedgeNow)

HedgeSetR(pr) ==
    /\ InHedging
    /\ HedgingRun(InCents(h1), InCents(h2), pr, ebit, ActualHedgeNow)

HedgeSetEbit(eb) ==
    /\ InHedging
    /\ HedgingRun(InCents(h1), InCents(h2), InCents(r), eb, ActualHedgeNow)

\* The input is below the division: it exists only in a run that got there.
HedgeSetActualHedge(ah) ==
    /\ InHedging
    /\ exception = ""
    /\ HedgingRun(InCents(h1), InCents(h2), InCents(r), ebit, ah)

\* The state before any direct call of a loss function.
NoCallYet ==
    /\ call_function = ""
    /\ call_args = <<>>
    /\ call_result = NoRat

\* The first run of the script shows the introduction.
FirstRun ==
    /\ section = "Introduction"
    /\ notional_value_millions = NoInt
    /\ notional_value = NoRat
    /\ initial_rate = NoRat
    /\ strike_price = NoRat
    /\ contract_duration = NoInt
    /\ current_rate = NoRat
    /\ months_elapsed = NoInt
    /\ months_remaining = NoInt
    /\ loss_usd = NoRat
    /\ percentage_loss = NoRat
    /\ loss_metric = <<>>
    /\ formula_metric = <<>>
    /\ multiple_metric = <<>>
    /\ high_risk_warning = FALSE
    /\ final_rate = NoRat
    /\ scenario_type = ""
    /\ shock_month = NoInt
    /\ months = <<>>
    /\ exchange_rates = <<>>
    /\ monthly_losses_usd = <<>>
    /\ cumulative_losses_usd = NoRat
    /\ cumulative_losses_usd_millions = NoRat
    /\ df_cumulative = <<>>
    /\ max_monthly_loss = NoRat
    /\ max_loss_month = NoInt
    /\ h1 = NoRat
    /\ h2 = NoRat
    /\ r = NoRat
    /\ ebit = NoInt
    /\ ebit_value = NoRat
    /\ delta = NoRat
    /\ optimal_hedge = NoRat
    /\ actual_hedge = NoInt
    /\ actual_hedge_value = NoRat
    /\ hedge_ratio = NoRat
    /\ hedging_stance = ""
    /\ stance_color = ""
    /\ bar_color = ""
    /\ exception = ""

Init ==
    /\ FirstRun
    /\ NoCallYet

SimWidgets ==
    \/ \E nm \in NotionalChoices : SimSetNotional(nm)
    \/ \E ir \in SimInitialRateChoices : SimSetInitialRate(ir)
    \/ \E sp \in SimStrikeChoices : SimSetStrike(sp)
    \/ \E cd \in DurationChoices : SimSetContractDuration(cd)
    \/ \E cr \in SimCurrentRateChoices : SimSetCurrentRate(cr)
    \/ \E me \in 0..MaxDuration : SimSetMonthsElapsed(me)

ScnWidgets ==
    \/ \E nm \in NotionalChoices : ScnSetNotional(nm)
    \/ \E sp \in ScnStrikeChoices : ScnSetStrike(sp)
    \/ \E ir \in ScnInitialRateChoices : ScnSetInitialRate(ir)
    \/ \E fr \in ScnFinalRateChoices : ScnSetFinalRate(fr)
    \/ \E st \in ScenarioTypes : ScnSetScenarioType(st)
    \/ \E sm \in ShockMonthChoices : ScnSetShockMonth(sm)

HedgeWidgets ==
    \/ \E p1 \in HedgeH1Choices : HedgeSetH1(p1)
    \/ \E p2 \in HedgeH2Choices : HedgeSetH2(p2)
    \/ \E pr \in HedgeRChoices : HedgeSetR(pr)
    \/ \E eb \in EbitChoices : HedgeSetEbit(eb)
    \/ \E ah \in ActualHedgeChoices : HedgeSetActualHedge(ah)

Next ==
    \/ \E s \in Sections : Navigate(s)
    \/ SimWidgets
    \/ ScnWidgets
    \/ HedgeWidgets

Spec == Init /\ [][Next]_vars

\* The user stays between the introduction and the simulator.
SimNext ==
    \/ \E s \in {"Introduction", "Sell Target Forward Simulator"} : Navigate(s)
    \/ SimWidgets

SimSpec == Init /\ [][SimNext]_vars

\* The user stays between the introduction and the scenario analysis.
ScnNext ==
    \/ \E s \in {"Introduction", "Market Scenario Analysis"} : Navigate(s)
    \/ ScnWidgets

ScnSpec == Init /\ [][ScnNext]_vars

\* The user stays between the introduction and the risk management insights.
HedgeNext ==
    \/ \E s \in {"Introduction", "Risk Management Insights"} : Navigate(s)
    \/ HedgeWidgets

HedgeSpec == Init /\ [][HedgeNext]_vars

\* The user stays in the scenario analysis with "Sudden Shock", where an
\* initial rate above the strike is explored as well.
ShockInitialRateChoices == ScnInitialRateChoices \cup {240}

ShockSetInitialRate(ir) ==
    /\ scenario_type = "Sudden Shock"
    /\ ScnSetInitialRate(ir)

ShockNext ==
    \/ \E s \in {"Introduction", "Market Scenario Analysis"} : Navigate(s)
    \/ ScnSetScenarioType("Sudden Shock")
    \/ \E nm \in NotionalChoices : ScnSetNotional(nm)
    \/ \E sp \in ScnStrikeChoices : ScnSetStrike(sp)
    \/ \E ir \in ShockInitialRateChoices : ShockSetInitialRate(ir)
    \/ \E fr \in ScnFinalRateChoices : ScnSetFinalRate(fr)
    \/ \E sm \in ShockMonthChoices : ScnSetShockMonth(sm)

ShockSpec == Init /\ [][ShockNext]_vars

----------------------------------------------------------------------------
(* The two loss functions called directly, with arguments the widgets      *)
(* cannot produce: a zero current rate, a negative strike, no months left. *)

FnInputs ==
    [notional_value : {RatMul(Int2Rat(nm), Int2Rat(OneMillion)) :
                           nm \in {MinNotional, DefaultNotional}},
     initial_rate : {Cents(DefaultInitialRate)},
     current_rate : {Zero, Cents(DefaultCurrentRate), Cents(DefaultFinalRate)},
     strike_price : {Cents(0 - MinRate), Cents(MinRate), Cents(DefaultStrike)},
     months_remaining : {0} \cup DurationChoices]

\* The division by the current rate S is reached (S > X) with S = 0.
DividesByZero(S, X) == ~RatLE(S, X) /\ S = Zero

UnchangedScript ==
    UNCHANGED <<section, notional_value_millions, notional_value, initial_rate,
                strike_price, simVars, scnVars, hedgeVars>>

CallStfLosses ==
    /\ call_function' = "calculate_stf_losses"
    /\ call_args' = call_args
    /\ IF DividesByZero(call_args.current_rate, call_args.strike_price)
       THEN /\ exception' = "ZeroDivisionError"
            /\ call_result' = NoRat
       ELSE /\ exception' = ""
            /\ call_result' =
                   calculate_stf_losses(call_args.notional_value,
                                        call_args.initial_rate,
                                        call_args.current_rate,
                                        call_args.strike_price,
                                        call_args.months_remaining)
    /\ UnchangedScript

CallPercentageLoss ==
    /\ call_function' = "calculate_percentage_loss"
    /\ call_args' = call_args
    /\ IF DividesByZero(call_args.current_rate, call_args.strike_price)
       THEN /\ exception' = "ZeroDivisionError"
            /\ call_result' = NoRat
       ELSE /\ exception' = ""
            /\ call_result' =
                   calculate_percentage_loss(call_args.current_rate,
                                             call_args.strike_price,
                                             call_args.months_remaining)
    /\ UnchangedScript

FnInit ==
    /\ FirstRun
    /\ call_function = ""
    /\ call_args \in FnInputs
    /\ call_result = NoRat

FnNext ==
    \/ CallStfLosses
    \/ CallPercentageLoss

FnSpec == FnInit /\ [][FnNext]_vars

----------------------------------------------------------------------------
(* The claims.                                                             *)

LossRegime == InSimulator /\ RatLT(strike_price, current_rate)

C2_NonNegativeMagnitudes ==
    InSimulator =>
        /\ RatLE(Zero, loss_usd)
        /\ RatLE(Zero, percentage_loss)
        /\ (LossRegime /\ months_remaining > 0)
               => (RatLT(Zero, loss_usd) /\ RatLT(Zero, percentage_loss))

\* C3: above the strike the loss in BRL is notional * 2 * months remaining *
\* (strike - current rate), and the loss in USD is that amount divided by the
\* current rate.
C3_LossFormula ==
    LossRegime =>
        RatMul(loss_usd, current_rate)
            = RatMul(RatMul(notional_value, Int2Rat(2 * months_remaining)),
                     RatSub(strike_price, current_rate))

C3_Witness ==
    /\ LossRegime
    /\ months_remaining = MaxDuration
    /\ notional_value_millions = DefaultNotional
    /\ strike_price = Cents(DefaultStrike)
    /\ current_rate = Cents(MaxRate)
    /\ loss_usd # Zero

\* C4: above the strike the percentage loss is 2 * months remaining *
\* (strike - current rate) * 100 / current rate, and a run that changes only
\* the notional or the initial rate leaves it unchanged.
C4_PercentageFormula ==
    /\ [](LossRegime =>
            RatMul(percentage_loss, current_rate)
                = RatMul(Int2Rat(200 * months_remaining),
                         RatSub(strike_price, current_rate)))
    /\ [][(/\ LossRegime
           /\ InSimulator'
           /\ current_rate' = current_rate
           /\ strike_price' = strike_price
           /\ months_remaining' = months_remaining)
              => percentage_loss' = percentage_loss]_vars

C4_Witness ==
    /\ LossRegime
    /\ months_remaining = MinDuration
    /\ notional_value_millions = MinNotional
    /\ initial_rate = Cents(DefaultFinalRate)
    /\ percentage_loss # Zero

\* C5: with notional 15,000,000, initial rate 1.60, current rate 2.00, strike
\* 1.65 and 6 months remaining the loss is the magnitude 31,500,000 and the
\* percentage loss the magnitude 210.
C5_ConcreteExample ==
    (/\ InSimulator
     /\ notional_value = Int2Rat(15000000)
     /\ initial_rate = Cents(160)
     /\ current_rate = Cents(200)
     /\ strike_price = Cents(165)
     /\ months_remaining = 6)
        => (loss_usd = Int2Rat(31500000) /\ percentage_loss = Int2Rat(210))

\* C6: for a fixed strike and fixed months remaining > 0, the percentage loss
\* is strictly increasing in the current rate above the strike.
C6_Monotonicity ==
    [][(/\ LossRegime
        /\ InSimulator'
        /\ strike_price' = strike_price
        /\ months_remaining' = months_remaining
        /\ months_remaining > 0
        /\ RatLT(current_rate, current_rate'))
           => RatLT(percentage_loss, percentage_loss')]_vars

\* C7: above the strike, doubling the months remaining (everything else
\* unchanged) doubles the loss.
C7_TimeScaling ==
    [][(/\ LossRegime
        /\ InSimulator'
        /\ notional_value' = notional_value
        /\ initial_rate' = initial_rate
        /\ current_rate' = current_rate
        /\ strike_price' = strike_price
        /\ months_remaining > 0
        /\ months_remaining' = 2 * months_remaining)
           => loss_usd' = RatMul(Int2Rat(2), loss_usd)]_vars

C7_Witness ==
    /\ LossRegime
    /\ months_elapsed = 8
    /\ months_remaining = 4
    /\ loss_usd # Zero

\* C8: the initial rate does not affect the loss: a simulator run that
\* changes only the initial rate leaves the loss unchanged, and a scenario
\* run that changes only the initial rate passed to the loss function (the
\* rate path staying the same) leaves the monthly and cumulative losses
\* unchanged; recomputing a state's losses with any other initial rate gives
\* the state's values.
C8_InitialRateIrrelevant ==
    /\ [](InSimulator =>
            \A other \in SimInitialRateChoices \cup ScnInitialRateChoices :
                calculate_stf_losses(notional_value, Cents(other), current_rate,
                                     strike_price, months_remaining) = loss_usd)
    /\ [](InScenario =>
            \A other \in SimInitialRateChoices \cup ScnInitialRateChoices :
                LossLoop(exchange_rates, notional_value, Cents(other), strike_price,
                         Len(exchange_rates))
                    = [monthly |-> monthly_losses_usd,
                       cumulative |-> cumulative_losses_usd])
    /\ [][(/\ InSimulator /\ InSimulator'
           /\ notional_value' = notional_value
           /\ current_rate' = current_rate
           /\ strike_price' = strike_price
           /\ months_remaining' = months_remaining)
              => loss_usd' = loss_usd]_vars
    /\ [][(/\ InScenario /\ InScenario'
           /\ notional_value' = notional_value
           /\ strike_price' = strike_price
           /\ exchange_rates' = exchange_rates)
              => (/\ monthly_losses_usd' = monthly_losses_usd
                  /\ cumulative_losses_usd' = cumulative_losses_usd
                  /\ df_cumulative' = df_cumulative)]_vars

C8_Witness ==
    /\ InScenario
    /\ scenario_type = "Sudden Shock"
    /\ shock_month = 1
    /\ initial_rate # Cents(DefaultInitialRate)
    /\ cumulative_losses_usd # Zero

\* C9: for each of the four scenario types, every shock month and all start
\* and end rates, the path has exactly 12 points, paired with the months
\* 1..12 in increasing order.
C9_ScenarioLength ==
    InScenario =>
        /\ Len(exchange_rates) = 12
        /\ Len(months) = 12
        /\ \A k \in 1..12 : months[k] = k
        /\ Len(monthly_losses_usd) = Len(months)
        /\ Len(df_cumulative) = Len(months)

C9_Witness ==
    /\ InScenario
    /\ scenario_type = "2008 Crisis Pattern"
    /\ Len(exchange_rates) = 12
    /\ months[12] = 12
    /\ exchange_rates[12] = final_rate

InScenarioType(st) == InScenario /\ scenario_type = st

\* C11: in a Sudden Shock path every month before the shock month has the
\* initial rate and every month from the shock month on has the final rate,
\* for every shock month in 1..12.
C11_SuddenShockStep ==
    InScenarioType("Sudden Shock") =>
        /\ shock_month \in 1..12
        /\ \A i \in 1..(shock_month - 1) : exchange_rates[i] = initial_rate
        /\ \A i \in shock_month..12 : exchange_rates[i] = final_rate

C11_Witness ==
    /\ InScenarioType("Sudden Shock")
    /\ shock_month = 12
    /\ initial_rate # final_rate
    /\ exchange_rates[11] = initial_rate
    /\ exchange_rates[12] = final_rate

\* C12: the Typical Pre-2008 path does not depend on the initial and final
\* rate inputs: it is the linear interpolation from 2.2 at month 1 down to
\* 1.6 at month 12, strictly decreasing month by month.
C12_Pre2008Fixed ==
    /\ [](InScenarioType("Typical Pre-2008 Pattern") =>
            /\ \A i \in 1..12 :
                   RatMul(Int2Rat(11), RatSub(Rat(22, 10), exchange_rates[i]))
                       = RatMul(Rat(6, 10), Int2Rat(i - 1))
            /\ exchange_rates[1] = Rat(22, 10)
            /\ exchange_rates[12] = Rat(16, 10)
            /\ \A i \in 1..11 : RatLT(exchange_rates[i + 1], exchange_rates[i]))
    /\ [][(/\ InScenarioType("Typical Pre-2008 Pattern")
           /\ InScenario'
           /\ scenario_type' = scenario_type)
              => exchange_rates' = exchange_rates]_vars

C12_Witness ==
    /\ InScenarioType("Typical Pre-2008 Pattern")
    /\ initial_rate = Cents(120)
    /\ final_rate = Cents(240)
    /\ exchange_rates[1] = Rat(22, 10)
    /\ exchange_rates[12] = Rat(16, 10)

\* C13: in a 2008 Crisis path the first 8 months follow
\* rate(i) = initial rate - 0.02 * (i - 1).
C13_CrisisPreLeg ==
    InScenarioType("2008 Crisis Pattern") =>
        \A i \in 1..8 :
            RatMul(Int2Rat(100), RatSub(initial_rate, exchange_rates[i]))
                = Int2Rat(2 * (i - 1))

C13_Witness ==
    /\ InScenarioType("2008 Crisis Pattern")
    /\ initial_rate = Cents(120)
    /\ exchange_rates[1] = initial_rate
    /\ exchange_rates[8] = Cents(106)

\* C14: in a 2008 Crisis path months 9..12 interpolate linearly from the
\* rate of month 8 up to the final rate,
\* rate(i) = rate(8) + (final rate - rate(8)) * (i - 8) / 4, and month 12 has
\* exactly the final rate.
C14_CrisisLeg ==
    InScenarioType("2008 Crisis Pattern") =>
        /\ \A i \in 9..12 :
               RatMul(Int2Rat(4), RatSub(exchange_rates[i], exchange_rates[8]))
                   = RatMul(RatSub(final_rate, exchange_rates[8]), Int2Rat(i - 8))
        /\ exchange_rates[12] = final_rate

\* C15: for every month of the path, in month order, the monthly loss is the
\* loss formula at that month's rate with one month remaining: zero at or
\* below the strike, notional * 2 * 1 * (strike - rate) / rate above it.
C15_OneMonthRemaining ==
    InScenario =>
        \A k \in 1..12 :
            /\ months[k] = k
            /\ IF RatLE(exchange_rates[k], strike_price)
               THEN monthly_losses_usd[k] = Zero
               ELSE RatMul(RatMul(monthly_losses_usd[k], Int2Rat(OneMillion)),
                           exchange_rates[k])
                        = RatMul(RatMul(notional_value, Int2Rat(2 * 1)),
                                 RatSub(strike_price, exchange_rates[k]))

C15_Witness ==
    /\ InScenarioType("Gradual Change")
    /\ monthly_losses_usd[1] = Zero
    /\ monthly_losses_usd[11] # Zero
    /\ monthly_losses_usd[12] # Zero
    /\ monthly_losses_usd[11] # monthly_losses_usd[12]

HedgeComputed == InHedging /\ exception = ""

\* C17: the hedge ratio is delta = h1 + (h1 - h2) * (1/r - 1) and the optimal
\* hedge amount is delta * ebit, delta being neither clamped at 0 nor at 1;
\* h1 = 0.95, h2 = 0.25, r = 0.25 and ebit = 500,000,000 give delta = 3.05
\* and an optimal hedge of 1,525,000,000.
C17_HedgeRatio ==
    HedgeComputed =>
        /\ RatMul(delta, r)
               = RatAdd(RatMul(h1, r),
                        RatMul(RatSub(h1, h2), RatSub(Int2Rat(1), r)))
        /\ optimal_hedge = RatMul(delta, ebit_value)
        /\ (/\ h1 = Rat(95, 100)
            /\ h2 = Rat(25, 100)
            /\ r = Rat(25, 100)
            /\ ebit_value = Int2Rat(500000000))
               => (delta = Rat(305, 100) /\ optimal_hedge = Int2Rat(1525000000))

C17_Witness ==
    /\ HedgeComputed
    /\ h1 = Rat(95, 100)
    /\ h2 = Rat(25, 100)
    /\ r = Rat(25, 100)
    /\ ebit = 500
    /\ RatLT(Int2Rat(1), delta)
    /\ optimal_hedge = Int2Rat(1525000000)

\* C18: the ratio of the actual to the optimal hedge falls in exactly one of
\* four stances: below 0.8 under-hedged, 0.8 to 1.2 appropriately hedged,
\* above 1.2 up to 2.0 moderately over-hedged, above 2.0 significantly
\* over-hedged; the colour of the actual hedge's bar is the one of the
\* stance's bucket.
C18_StanceBuckets ==
    (HedgeComputed /\ optimal_hedge # Zero) =>
        LET ratio == RatDiv(actual_hedge_value, optimal_hedge)
            under == RatLT(ratio, Rat(8, 10))
            appropriate == RatLE(Rat(8, 10), ratio) /\ RatLE(ratio, Rat(12, 10))
            moderate == RatLT(Rat(12, 10), ratio) /\ RatLE(ratio, Int2Rat(2))
            significant == RatLT(Int2Rat(2), ratio)
        IN  /\ under <=> hedging_stance = "Under-hedged"
            /\ appropriate <=> hedging_stance = "Appropriately hedged"
            /\ moderate <=> hedging_stance = "Moderately over-hedged"
            /\ significant <=> hedging_stance
                                   = "Significantly over-hedged (potential speculation)"
            /\ under <=> bar_color = "orange"
            /\ appropriate <=> bar_color = "green"
            /\ moderate <=> bar_color = "yellow"
            /\ significant <=> bar_color = "red"

C18_Witness ==
    /\ HedgeComputed
    /\ RatLT(Zero, optimal_hedge)
    /\ hedge_ratio = Rat(12, 10)
    /\ hedging_stance = "Appropriately hedged"
    /\ bar_color = "green"

\* C19: with a profit margin of 0 the hedge computation fails with an
\* InvalidInput error, not with a division fault, and produces no result.
C19_ZeroMarginRejected ==
    (InHedging /\ r = Zero) =>
        /\ exception = "InvalidInput"
        /\ delta = NoRat
        /\ optimal_hedge = NoRat

\* C20: a loss function called with a current rate of 0 fails a precondition
\* check with an InvalidInput error: it neither returns a number nor lets a
\* division fault through.
C20_ZeroRateRejected ==
    (call_function # "" /\ call_args.current_rate = Zero) =>
        /\ exception = "InvalidInput"
        /\ call_result = NoRat

\* C22: in the simulator, whenever the loss exceeds 50% of the notional
\* value, the warning "High Risk Exposure" is shown.
C22_HighRiskWarning ==
    (/\ InSimulator
     /\ RatLT(Rat(50, 100), RatDiv(RatAbs(loss_usd), notional_value)))
        => high_risk_warning

LossMetricNoLoss == loss_metric = <<"$0", "No Loss">>

FormulaMetricNoLoss == formula_metric[2] = "No Loss (S <= X)"

MultipleMetricNoLoss == multiple_metric = <<"0x", "No loss incurred">>

\* C26 as stated: the Loss metric shows "$0 / No Loss" if and only if the
\* Formula metric shows "No Loss (S <= X)" if and only if the Loss Multiple
\* metric shows "0x / No loss incurred".
C26_MetricsAgree ==
    InSimulator =>
        /\ LossMetricNoLoss <=> FormulaMetricNoLoss
        /\ FormulaMetricNoLoss <=> MultipleMetricNoLoss

\* C26 amended: the Loss metric shows no loss if and only if the Loss
\* Multiple metric does; the Formula metric shows "No Loss (S <= X)" exactly
\* when the current rate is at or below the strike, and then the other two
\* show no loss as well; with months remaining > 0 all three agree.
C26_MetricsAgreeUnexpired ==
    InSimulator =>
        /\ LossMetricNoLoss <=> MultipleMetricNoLoss
        /\ FormulaMetricNoLoss <=> RatLE(current_rate, strike_price)
        /\ FormulaMetricNoLoss => LossMetricNoLoss
        /\ months_remaining > 0 => (LossMetricNoLoss <=> FormulaMetricNoLoss)

C26_Witness ==
    /\ LossRegime
    /\ months_elapsed = contract_duration
    /\ LossMetricNoLoss
    /\ MultipleMetricNoLoss
    /\ ~FormulaMetricNoLoss

\* C27: months remaining = contract duration - months elapsed lies in
\* 0..contract duration, and when months elapsed equals the contract duration
\* the loss and the percentage loss are zero for every current rate and
\* strike.
C27_ExpiredContract ==
    InSimulator =>
        /\ months_remaining = contract_duration - months_elapsed
        /\ months_remaining \in 0..contract_duration
        /\ months_elapsed = contract_duration
               => (loss_usd = Zero /\ percentage_loss = Zero)

C27_Witness ==
    /\ LossRegime
    /\ contract_duration = MaxDuration
    /\ months_elapsed = MaxDuration
    /\ months_remaining = 0
    /\ loss_usd = Zero
    /\ percentage_loss = Zero

SameSimulationInputs ==
    /\ InScenario
    /\ InScenario'
    /\ notional_value' = notional_value
    /\ strike_price' = strike_price
    /\ initial_rate' = initial_rate
    /\ exchange_rates' = exchange_rates

\* C21: running the monthly simulation again with the same notional, strike,
\* initial rate and rate path gives the same monthly and cumulative losses:
\* nothing carries over from one run to the next, the accumulator starts
\* at 0 in every run.
C21_Idempotent ==
    /\ [](InScenario =>
            LossLoop(exchange_rates, notional_value, initial_rate, strike_price,
                     Len(exchange_rates))
                = [monthly |-> monthly_losses_usd,
                   cumulative |-> cumulative_losses_usd])
    /\ [][SameSimulationInputs
              => (/\ monthly_losses_usd' = monthly_losses_usd
                  /\ cumulative_losses_usd' = cumulative_losses_usd
                  /\ cumulative_losses_usd_millions' = cumulative_losses_usd_millions
                  /\ df_cumulative' = df_cumulative)]_vars

C21_Witness ==
    /\ InScenarioType("Typical Pre-2008 Pattern")
    /\ final_rate # Cents(DefaultFinalRate)
    /\ monthly_losses_usd[1] # Zero
    /\ cumulative_losses_usd # Zero

ShockMovedEarlier ==
    /\ InScenarioType("Sudden Shock")
    /\ InScenario'
    /\ scenario_type' = scenario_type
    /\ notional_value' = notional_value
    /\ strike_price' = strike_price
    /\ initial_rate' = initial_rate
    /\ final_rate' = final_rate
    /\ shock_month' < shock_month

C28_MaxMonthlyLoss ==
    InScenario =>
        /\ \A k \in 1..12 :
               RatLE(RatAbs(monthly_losses_usd[k]), RatAbs(max_monthly_loss))
        /\ max_loss_month \in 1..12
        /\ monthly_losses_usd[max_loss_month] = max_monthly_loss
        /\ \A j \in 1..(max_loss_month - 1) :
               monthly_losses_usd[j] # max_monthly_loss
        /\ (\A k \in 1..12 : monthly_losses_usd[k] = Zero)
               => (max_monthly_loss = Zero /\ max_loss_month = 1)

C28_Witness ==
    /\ InScenarioType("Sudden Shock")
    /\ shock_month = 6
    /\ max_loss_month = 6
    /\ max_monthly_loss # Zero
    /\ monthly_losses_usd[12] = max_monthly_loss

\* C29: when the optimal hedge amount is not strictly positive (EBIT 0, or
\* delta <= 0) the actual/optimal ratio is 0, no division being made, and
\* the stance is Under-hedged for every actual hedge amount.
C29_DegenerateOptimalHedge ==
    (HedgeComputed /\ RatLE(optimal_hedge, Zero)) =>
        /\ hedge_ratio = Zero
        /\ hedging_stance = "Under-hedged"
        /\ stance_color = "orange"
        /\ bar_color = "orange"

C29_Witness ==
    /\ HedgeComputed
    /\ RatLT(delta, Zero)
    /\ RatLT(optimal_hedge, Zero)
    /\ actual_hedge = DefaultActualHedge
    /\ hedge_ratio = Zero
    /\ hedging_stance = "Under-hedged"

\* C30: all monthly losses have the same sign or are zero, so the magnitude
\* of the cumulative loss never decreases from one month to the next, and it
\* stays unchanged exactly in the months whose rate is at or below the
\* strike.
C30_CumulativeMonotone ==
    InScenario =>
        /\ \/ \A k \in 1..12 : RatLE(monthly_losses_usd[k], Zero)
           \/ \A k \in 1..12 : RatLE(Zero, monthly_losses_usd[k])
        /\ (df_cumulative[1] = Zero) <=> RatLE(exchange_rates[1], strike_price)
        /\ \A i \in 2..12 :
               LET before == df_cumulative[i - 1]
                   step == RatSub(df_cumulative[i], before)
               IN  /\ \/ RatLE(Zero, before) /\ RatLE(Zero, step)
                      \/ RatLE(before, Zero) /\ RatLE(step, Zero)
                   /\ (step = Zero) <=> RatLE(exchange_rates[i], strike_price)

C30_Witness ==
    /\ InScenarioType("2008 Crisis Pattern")
    /\ df_cumulative[8] = Zero
    /\ df_cumulative[11] # Zero
    /\ RatLT(RatAbs(df_cumulative[11]), RatAbs(df_cumulative[12]))

====
